---- MODULE Spec2Model ----
(***************************************************************************)
(* LANscape scan core: ReliabilityQueue (single worker FIFO), ScanManager  *)
(* and the SubnetScanner stage machine, as state machines.                 *)
(*                                                                         *)
(* Threads: API callers (enqueue / cancel / new_scan / wait / terminate),  *)
(* the queue worker (_worker_loop), and one thread per scanner running     *)
(* SubnetScanner.start.  Every statement that reads or writes state shared *)
(* between threads without a lock is a step of its own; code under         *)
(* ReliabilityQueue._lock is one step.                                     *)
(***************************************************************************)
EXTENDS Integers, Sequences, FiniteSets, TLC

\* ------------------------------------------------------------------ bounds
MaxJobs == 2        \* jobs ever submitted to the queue (Spec, SpecOps, FairSpec)
MaxScans == 1       \* scanners a caller creates in SpecScan
NHosts == 1         \* addresses of the parsed subnet of every scan
MaxPrior == 2       \* jobs already in the queue when enqueue is called in SpecEnq
MaxRepeat == 2      \* largest repeat passed to enqueue (Spec, SpecOps, FairSpec)
PoolHosts == 2      \* addresses of the subnet expression in SpecPool
MaxTotal == 3       \* devices_total of the scanner states of SpecPercent
MaxPorts == 2       \* ports of the port list in SpecPercent
MaxCalls == 2       \* concurrent job-tracked calls of one function in SpecTracker
MaxFrags == 2       \* comma-separated entries of an expression in SpecParse
MaxRetries == 2     \* largest PortScanConfig.retries in SpecPort
MaxProbes == 2      \* probes _multi_probe_generic sends in SpecService
MaxAttempts == 2    \* largest PingConfig.attempts and ArpConfig.timeout in SpecConfig
MaxMult == 12       \* largest multiplier of SpecSizing, in quarters
MaxCtl == 3         \* control characters of a response in SpecClean
MaxPair == 2        \* scanners alive at the same time in SpecPair

\* ------------------------------------------------------- program constants
MaxPolls == 20      \* SubnetScanner.terminate: for i in range(20)
RepeatCap == 50     \* enqueue_reliability_job: min(repeat_raw, 50)

VARIABLES
    jobs,        \* ReliabilityQueue._jobs: job id -> ReliabilityJob (ids 1..Len)
    queue,       \* ReliabilityQueue._queue: deque of job ids
    submitted,   \* history: number of jobs ever handed to enqueue
    startOrder,  \* history: job ids in the order the worker made them running
    lastOp,      \* history: the last API call that returned, with its result
    wpc,         \* position of the worker thread in _worker_loop
    wjob,        \* _worker_loop local: job_id (0 = none)
    wexc,        \* _worker_loop local: the exception caught ("" = none)
    scans,       \* ScanManager.scans: scanner uid -> SubnetScanner (uids 1..Len)
    jobRunning,  \* JobStats.running: number of job-tracked calls in flight
    cpc,         \* SpecScan caller: uid -> position of its wait_until_complete
    tpc,         \* SpecScan: position of the thread that calls terminate()
    tscan,       \* terminate(): self (0 = none)
    tpolls,      \* terminate(): loop index i of range(20)
    subnet,      \* SpecPool: SubnetScanner.subnet, the parsed addresses in order
    hostw,       \* SpecPool: per submitted future, the _get_host_details call
    devlist,     \* SpecPool: ScannerResults.devices, in order of append
    errs,        \* SpecPool: len(ScannerResults.errors)
    fin,         \* the arguments and the object state of one call of a function
    fout,        \* what that call returned or raised (<<>> = not called yet)
    stats,       \* SpecTracker: job_stats of the instance, running and finished;
                 \* SpecProbe: the locals of _multi_probe_generic
    calls        \* SpecTracker: per job-tracked call, its position in wrapper;
                 \* SpecProbe: per probe, its task

vars == <<jobs, queue, submitted, startOrder, lastOp, wpc, wjob, wexc,
          scans, jobRunning, cpc, tpc, tscan, tpolls,
          subnet, hostw, devlist, errs,
          fin, fout, stats, calls>>

queueVars == <<jobs, queue, submitted, startOrder, lastOp, wpc, wjob, wexc>>
scanCallerVars == <<cpc, tpc, tscan, tpolls>>
poolVars == <<subnet, hostw, devlist, errs>>
fnVars == <<fin, fout, stats, calls>>

Max(a, b) == IF a >= b THEN a ELSE b
Min(a, b) == IF a <= b THEN a ELSE b

Configs == {"ok", "bad"}   \* "bad": SubnetScanner(config) raises (subnet_scan.py:39-41)

\* ------------------------------------------------------- SubnetScanner
\* SubnetScanner.__init__ / ScannerResults.__init__
\* for a subnet of n addresses
NewScanner(n) ==
    [running |-> FALSE, stage |-> "instantiated", end_time |-> FALSE,
     pc |-> "L59", todo |-> n, active |-> 0, devices |-> 0,
     scanned |-> 0, term |-> FALSE, perr |-> FALSE, task_scan_ports |-> TRUE]

\* SubnetScanner._set_stage: end_time is stamped whenever running is false
SetStage(s, stage) ==
    [s EXCEPT !.stage = stage,
              !.end_time = IF ~s.running THEN TRUE ELSE s.end_time]

\* ScannerResults.get_runtime raises TypeError: end_time is None and not running
GetRuntimeRaises(s) == ~s.running /\ ~s.end_time

StageRank(st) ==
    CASE st = "instantiated" -> 0
      [] st = "scanning devices" -> 1
      [] st = "testing ports" -> 2
      [] st = "service scanning" -> 3
      [] st = "complete" -> 4
      [] OTHER -> 5

Finished(s) == ~s.running /\ s.stage \in {"complete", "terminated"}

\* @terminator: the wrapped method is entered only while the scanner is running,
\* and returns None at once otherwise
Terminator(s) == s.running

\* JobStats.start_job / finish_job behind @job_tracker: one more / one fewer call
\* in flight; finish_job runs also when the wrapped method raises
StartJob(n) == n + 1
FinishJob(n) == n - 1

\* ------------------------------------------ SubnetScanner.start (one thread)
SetScanner(u, s) == scans' = [scans EXCEPT ![u] = s]

\* mutant: the first stage set is the last one's
ThreadSetScanning_Complete(u) ==
    /\ scans[u].pc = "L59"
    /\ SetScanner(u, [SetStage(scans[u], "complete") EXCEPT !.pc = "L60"])
    /\ UNCHANGED jobRunning

\* line 59: self._set_stage('scanning devices')
ThreadSetScanning(u) ==
    /\ scans[u].pc = "L59"
    /\ SetScanner(u, [SetStage(scans[u], "scanning devices") EXCEPT !.pc = "L60"])
    /\ UNCHANGED jobRunning

\* line 60: self.running = True
ThreadSetRunning(u) ==
    /\ scans[u].pc = "L60"
    /\ SetScanner(u, [scans[u] EXCEPT !.running = TRUE, !.pc = "L61"])
    /\ UNCHANGED jobRunning

\* lines 61-62, 141-143: a pool worker enters _get_host_details; the @terminator
\* gate returns at once when the scanner is not running, else @job_tracker counts
\* the call in JobStats.running until it returns
HostJobBegin(u) ==
    /\ scans[u].pc = "L61"
    /\ scans[u].todo > 0
    /\ IF Terminator(scans[u])
         THEN /\ SetScanner(u, [scans[u] EXCEPT !.todo = @ - 1, !.active = @ + 1])
              /\ jobRunning' = StartJob(jobRunning)
         ELSE /\ SetScanner(u, [scans[u] EXCEPT !.todo = @ - 1])
              /\ UNCHANGED jobRunning

\* lines 147-156: ping, results.scanned(), append the device when alive
HostJobEnd(u, alive) ==
    /\ scans[u].pc = "L61"
    /\ scans[u].active > 0
    /\ SetScanner(u, [scans[u] EXCEPT !.active = @ - 1,
                                      !.scanned = @ + 1,
                                      !.devices = IF alive THEN @ + 1 ELSE @])
    /\ jobRunning' = FinishJob(jobRunning)

\* lines 63-75: every future has a result; self._set_stage('testing ports')
\* mutant: the pool is left while liveness workers are still running
ThreadSetTesting_NoDrain(u) ==
    /\ scans[u].pc = "L61"
    /\ scans[u].todo = 0
    /\ SetScanner(u, [SetStage(scans[u], "testing ports") EXCEPT !.pc = "L76"])
    /\ UNCHANGED jobRunning

ThreadSetTesting(u) ==
    /\ scans[u].pc = "L61"
    /\ scans[u].todo = 0
    /\ scans[u].active = 0
    /\ SetScanner(u, [SetStage(scans[u], "testing ports") EXCEPT !.pc = "L76"])
    /\ UNCHANGED jobRunning

\* lines 76, 158-161: _scan_network_ports behind its @terminator gate
PortsEnter(u) ==
    /\ scans[u].pc = "L76"
    /\ IF Terminator(scans[u])
         THEN SetScanner(u, [scans[u] EXCEPT !.pc = "L160", !.todo = scans[u].devices])
         ELSE SetScanner(u, [scans[u] EXCEPT !.pc = "L77"])
    /\ UNCHANGED jobRunning

\* lines 161, 165-168: a pool worker enters _scan_ports for one device
PortJobBegin(u) ==
    /\ scans[u].pc = "L160"
    /\ scans[u].todo > 0
    /\ IF Terminator(scans[u])
         THEN /\ SetScanner(u, [scans[u] EXCEPT !.todo = @ - 1, !.active = @ + 1])
              /\ jobRunning' = StartJob(jobRunning)
         ELSE /\ SetScanner(u, [scans[u] EXCEPT !.todo = @ - 1])
              /\ UNCHANGED jobRunning

\* lines 170-175: the device's ports are tested; the tracked call returns, or
\* raises what a _test_port raised (future.result() at line 173 is not guarded)
PortJobEnd(u, raised) ==
    /\ scans[u].pc = "L160"
    /\ scans[u].active > 0
    /\ SetScanner(u, [scans[u] EXCEPT !.active = @ - 1,
                                      !.perr = @ \/ raised])
    /\ jobRunning' = FinishJob(jobRunning)

\* lines 162-163: every port future has a result; _scan_network_ports returns,
\* or future.result() raises again what a _scan_ports raised: nothing in
\* _scan_network_ports or start() catches it and the thread ends there
PortsExit(u) ==
    /\ scans[u].pc = "L160"
    /\ scans[u].todo = 0
    /\ scans[u].active = 0
    /\ SetScanner(u, [scans[u] EXCEPT !.pc = IF scans[u].perr THEN "dead" ELSE "L77"])
    /\ UNCHANGED jobRunning

\* line 77: self.running = False
ThreadClearRunning(u) ==
    /\ scans[u].pc = "L77"
    /\ SetScanner(u, [scans[u] EXCEPT !.running = FALSE, !.pc = "L78"])
    /\ UNCHANGED jobRunning

\* line 78: self._set_stage('complete'); the thread ends
ThreadSetComplete(u) ==
    /\ scans[u].pc = "L78"
    /\ SetScanner(u, [SetStage(scans[u], "complete") EXCEPT !.pc = "done"])
    /\ UNCHANGED jobRunning

ScanThread(u) ==
    \/ ThreadSetScanning(u)
    \/ ThreadSetRunning(u)
    \/ HostJobBegin(u)
    \/ \E alive \in BOOLEAN : HostJobEnd(u, alive)
    \/ ThreadSetTesting(u)
    \/ PortsEnter(u)
    \/ PortJobBegin(u)
    \/ \E raised \in BOOLEAN : PortJobEnd(u, raised)
    \/ PortsExit(u)
    \/ ThreadClearRunning(u)
    \/ ThreadSetComplete(u)

ScanThreads == \E u \in DOMAIN scans : ScanThread(u)

\* ----------------------- the liveness pool call by call (SpecPool, scanner 1)
\* a submitted future of line 62 that no pool worker has picked up yet
NewHostJob == [pc |-> "queued", alive |-> "unknown", seen |-> 0]

SetHost(i, w) == hostw' = [hostw EXCEPT ![i] = w]

\* lines 141-143: a pool worker calls _get_host_details(ip) through @terminator
\* and @job_tracker
HostBegin(i) ==
    /\ scans[1].pc = "L61"
    /\ hostw[i].pc = "queued"
    /\ IF Terminator(scans[1])
         THEN /\ SetHost(i, [hostw[i] EXCEPT !.pc = "L148"])
              /\ SetScanner(1, [scans[1] EXCEPT !.todo = @ - 1, !.active = @ + 1])
              /\ jobRunning' = StartJob(jobRunning)
         ELSE /\ SetHost(i, [hostw[i] EXCEPT !.pc = "done"])
              /\ SetScanner(1, [scans[1] EXCEPT !.todo = @ - 1])
              /\ UNCHANGED jobRunning
    /\ UNCHANGED <<devlist, errs, subnet>>

\* what self._ping(device) gives at line 148: the liveness check's answer, an
\* exception, or None from the @terminator gate of _ping
PingResults == {"true", "false", "raise", "none"}

\* line 148: is_alive = self._ping(device)   (187-193)
HostPing(i, res) ==
    /\ hostw[i].pc = "L148"
    /\ (res = "none") <=> ~Terminator(scans[1])
    /\ IF res = "raise"
         THEN /\ SetHost(i, [hostw[i] EXCEPT !.pc = "raised"])
              /\ SetScanner(1, [scans[1] EXCEPT !.active = @ - 1])
              /\ jobRunning' = FinishJob(jobRunning)
         ELSE /\ SetHost(i, [hostw[i] EXCEPT !.pc = "L149",
                                 !.alive = IF res = "none" THEN @ ELSE res])
              /\ UNCHANGED <<scans, jobRunning>>
    /\ UNCHANGED <<devlist, errs, subnet>>

\* lines 149, 231: self.devices_scanned += 1 reads the counter ...
HostScannedRead(i) ==
    /\ hostw[i].pc = "L149"
    /\ SetHost(i, [hostw[i] EXCEPT !.pc = "L231", !.seen = scans[1].scanned])
    /\ UNCHANGED <<scans, jobRunning, devlist, errs, subnet>>

\* ... and stores the value read plus one; no lock is held in between
HostScannedWrite(i) ==
    /\ hostw[i].pc = "L231"
    /\ SetHost(i, [hostw[i] EXCEPT !.pc = "L150", !.seen = 0])
    /\ SetScanner(1, [scans[1] EXCEPT !.scanned = hostw[i].seen + 1])
    /\ UNCHANGED <<jobRunning, devlist, errs, subnet>>

\* mutant: the device is appended whatever the liveness check said
IsAlive_Always(w) == TRUE

\* line 150: `if not is_alive: return None`
IsAlive(w) == w.alive = "true"

\* lines 150-155: a host that is not alive returns; else device.get_metadata(),
\* which may raise, and self.results.devices.append(device)
HostAppend(i, raised) ==
    /\ hostw[i].pc = "L150"
    /\ raised => IsAlive(hostw[i])
    /\ IF raised
         THEN /\ SetHost(i, [hostw[i] EXCEPT !.pc = "raised"])
              /\ SetScanner(1, [scans[1] EXCEPT !.active = @ - 1])
              /\ jobRunning' = FinishJob(jobRunning)
              /\ UNCHANGED devlist
         ELSE /\ SetHost(i, [hostw[i] EXCEPT !.pc = "L156"])
              /\ IF IsAlive(hostw[i])
                   THEN /\ devlist' = Append(devlist, [ip |-> subnet[i],
                                                        alive |-> hostw[i].alive])
                        /\ SetScanner(1, [scans[1] EXCEPT !.devices = @ + 1])
                   ELSE UNCHANGED <<devlist, scans>>
              /\ UNCHANGED jobRunning
    /\ UNCHANGED <<errs, subnet>>

\* lines 151, 156: the call returns and @job_tracker finishes the job
HostReturn(i) ==
    /\ hostw[i].pc = "L156"
    /\ SetHost(i, [hostw[i] EXCEPT !.pc = "done"])
    /\ SetScanner(1, [scans[1] EXCEPT !.active = @ - 1])
    /\ jobRunning' = FinishJob(jobRunning)
    /\ UNCHANGED <<devlist, errs, subnet>>

HostJob(i) ==
    \/ HostBegin(i)
    \/ \E res \in PingResults : HostPing(i, res)
    \/ HostScannedRead(i)
    \/ HostScannedWrite(i)
    \/ \E raised \in BOOLEAN : HostAppend(i, raised)
    \/ HostReturn(i)

\* lines 63-75: future.result() of every future in turn, one entry appended to
\* results.errors per future that raised; then _set_stage('testing ports')
PoolSetTesting ==
    /\ ThreadSetTesting(1)
    /\ errs' = errs + Cardinality({i \in DOMAIN hostw : hostw[i].pc = "raised"})
    /\ UNCHANGED <<hostw, devlist, subnet>>

\* start() of scanner 1 with its liveness pool call by call
PoolScanThread ==
    \/ /\ \/ ThreadSetScanning(1)
          \/ ThreadSetRunning(1)
          \/ PortsEnter(1)
          \/ PortJobBegin(1)
          \/ \E raised \in BOOLEAN : PortJobEnd(1, raised)
          \/ PortsExit(1)
          \/ ThreadClearRunning(1)
          \/ ThreadSetComplete(1)
       /\ UNCHANGED <<poolVars, fnVars>>
    \/ \E i \in DOMAIN hostw : HostJob(i)
    \/ PoolSetTesting

\* The same thread where no terminate() is ever called and no port test raises
\* (the queue's scans): the
\* pools touch only fields of their own scanner that no other thread reads, so a
\* pool runs as part of the statement that follows it.
\* lines 61-75: the liveness pool finds `found` devices; _set_stage('testing ports')
ThreadScanDevices(u, found) ==
    /\ scans[u].pc = "L61"
    /\ SetScanner(u, [SetStage(scans[u], "testing ports") EXCEPT
                         !.pc = "L76", !.todo = 0,
                         !.scanned = @ + scans[u].todo, !.devices = @ + found])
    /\ UNCHANGED jobRunning

\* lines 76-77: the port pool over results.devices; self.running = False
ThreadTestPorts(u) ==
    /\ scans[u].pc = "L76"
    /\ SetScanner(u, [scans[u] EXCEPT !.running = FALSE, !.pc = "L78"])
    /\ UNCHANGED jobRunning

QueueScanThread(u) ==
    \/ ThreadSetScanning(u)
    \/ ThreadSetRunning(u)
    \/ \E found \in 0..NHosts : ThreadScanDevices(u, found)
    \/ ThreadTestPorts(u)
    \/ ThreadSetComplete(u)

\* ------------------------------------------------- SubnetScanner.terminate
\* line 83: self.running = False (a scanner is terminated at most once)
TermCall(u) ==
    /\ tpc \in {"idle", "returned", "raised"}
    /\ ~scans[u].term
    /\ SetScanner(u, [scans[u] EXCEPT !.running = FALSE, !.term = TRUE])
    /\ tscan' = u
    /\ tpolls' = 0
    /\ tpc' = "L84"
    /\ UNCHANGED <<jobRunning, cpc, queueVars, poolVars, fnVars>>

\* line 84: self._set_stage('terminating')
TermSetTerminating ==
    /\ tpc = "L84"
    /\ SetScanner(tscan, SetStage(scans[tscan], "terminating"))
    /\ tpc' = "L85"
    /\ UNCHANGED <<jobRunning, cpc, tscan, tpolls, queueVars, poolVars, fnVars>>

\* line 86: not len(self.job_stats.running.keys())
NoJobsRunning == jobRunning = 0

\* lines 85-86, 89: one iteration of `for i in range(20)`: the running map is
\* read; when it is not empty the loop sleeps and goes round
TermPoll ==
    /\ tpc = "L85"
    /\ tpolls < MaxPolls
    /\ IF NoJobsRunning
         THEN tpc' = "L87" /\ tpolls' = 0
         ELSE tpolls' = tpolls + 1 /\ UNCHANGED tpc
    /\ UNCHANGED <<scans, jobRunning, cpc, tscan, queueVars, poolVars, fnVars>>

\* line 87: self._set_stage('terminated')
TermSetTerminated ==
    /\ tpc = "L87"
    /\ SetScanner(tscan, SetStage(scans[tscan], "terminated"))
    /\ tpc' = "L88"
    /\ UNCHANGED <<jobRunning, cpc, tscan, tpolls, queueVars, poolVars, fnVars>>

\* line 88: return True
TermReturn ==
    /\ tpc = "L88"
    /\ tpc' = "returned"
    /\ UNCHANGED <<scans, jobRunning, cpc, tscan, tpolls, queueVars, poolVars, fnVars>>

\* line 90: raise SubnetScanTerminationFailure(self.job_stats.running)
TermRaise ==
    /\ tpc = "L85"
    /\ tpolls = MaxPolls
    /\ tpc' = "raised"
    /\ tpolls' = 0
    /\ UNCHANGED <<scans, jobRunning, cpc, tscan, queueVars, poolVars, fnVars>>

Terminate ==
    \/ \E u \in DOMAIN scans : TermCall(u)
    \/ TermSetTerminating
    \/ TermPoll
    \/ TermSetTerminated
    \/ TermReturn
    \/ TermRaise

\* ------------------------------------------------------------- ScanManager
\* ScanManager.wait_until_complete lines 313-317: leaves the loop when it reads
\* scan.running as false
WaitSees(s) == ~s.running

\* the record of an API call that returned, kept only by the specifications that
\* log; seq alternates so that two equal calls in a row are still two records
Log(log, op, arg, ret, created) ==
    lastOp' = IF log
                THEN [op |-> op, arg |-> arg, ret |-> ret, created |-> created,
                      seq |-> 1 - lastOp.seq]
                ELSE lastOp

\* the configs a caller passes to new_scan, by what is wrong with them
ConfigKinds == <<"ok", "bad", "malformed", "oversize", "unknown ports">>

\* mutant: an unknown port list gives an empty port list
ConstructorError_NoPortCheck(cfg) ==
    CASE cfg = "malformed" -> "ValueError"
      [] cfg = "oversize" -> "SubnetTooLargeError"
      [] cfg = "bad" -> "ValueError"
      [] OTHER -> ""

\* SubnetScanner.__init__ lines 39-41: parse_ip_input raises on a malformed or an
\* oversize subnet; PortManager.get_port_list returns None for an unknown port
\* list and .keys() of it raises.  "" when the constructor returns
ConstructorError(cfg) ==
    CASE cfg = "malformed" -> "ValueError"
      [] cfg = "oversize" -> "SubnetTooLargeError"
      [] cfg = "unknown ports" -> "AttributeError"
      [] cfg = "bad" -> "ValueError"
      [] OTHER -> ""

\* ScanConfig.parallelism in thousandths: 0.05, 0.5 and the default 1.0
Parallelisms == {50, 500, 1000}

TCNT_PORT_SCANS == 10
TCNT_PORT_TEST == 128
TCNT_DEVICE_ISALIVE == 256

\* _t_cnt lines 195-200: int(base_threads * parallelism), par in thousandths
T_cnt(base_threads, par) == (base_threads * par) \div 1000

\* calc_percent_complete lines 92-125 on the scanner state s, with the default
\* timings 4.5 s per host and 1 s per port.  The quotients are kept as fractions
\* over the common denominator 2 * b * isalive_multiplier * port_test_multiplier,
\* where a / b is est_subnet_alive_percent; a division by zero raises
CalcPercentComplete(s) ==
    IF ~s.running THEN [done |-> TRUE, val |-> 100, exc |-> ""]
    ELSE
      LET started == s.devices # 0 /\ s.scanned # 0
          a == IF started THEN s.devices ELSE 1
          b == IF started THEN s.scanned ELSE 10
          isalive_multiplier == T_cnt(TCNT_DEVICE_ISALIVE, s.par)
          port_test_multiplier ==
              T_cnt(TCNT_PORT_SCANS, s.par) * T_cnt(TCNT_PORT_TEST, s.par)
          unscannedN == Max(0, a * s.total * s.nports - s.pscanned * b)
          totalN == 9 * s.total * b * port_test_multiplier
                      + 2 * a * s.total * s.nports * isalive_multiplier
          remainingN == 9 * (s.total - s.scanned) * b * port_test_multiplier
                          + 2 * unscannedN * isalive_multiplier
          diffN == IF totalN >= remainingN THEN totalN - remainingN
                                           ELSE remainingN - totalN
      IN  IF isalive_multiplier = 0 \/ port_test_multiplier = 0 \/ totalN = 0
            THEN [done |-> TRUE, val |-> 0, exc |-> "ZeroDivisionError"]
            ELSE [done |-> TRUE, val |-> (diffN * 100) \div totalN, exc |-> ""]

\* new_scan lines 291-295 called by an API caller with the config ConfigKinds[k]:
\* line 292 raises what the constructor raises; else the scan thread is started
\* and the scan registered
NewScanAs(log, k) ==
    /\ ConstructorError(ConfigKinds[k]) = "" => Len(scans) < MaxScans
    /\ IF ConstructorError(ConfigKinds[k]) # ""
         THEN /\ Log(log, "new_scan", k, FALSE, <<>>)
              /\ UNCHANGED <<scans, cpc>>
         ELSE /\ scans' = Append(scans, NewScanner(NHosts))
              /\ cpc' = Append(cpc, "idle")
              /\ Log(log, "new_scan", k, TRUE, <<Len(scans) + 1>>)
    /\ UNCHANGED <<jobs, queue, submitted, startOrder, wpc, wjob, wexc, poolVars, fnVars>>
    /\ UNCHANGED <<jobRunning, tpc, tscan, tpolls>>

NewScan(cfg) ==
    \E k \in DOMAIN ConfigKinds : ConfigKinds[k] = cfg /\ NewScanAs(FALSE, k)

\* new_scan lines 291-295 for a config whose subnet parses to the addresses sn
\* (line 39), one _get_host_details future per entry of the list (line 62)
NewScanSubnet(sn) ==
    /\ scans = <<>>
    /\ scans' = <<NewScanner(Len(sn))>>
    /\ cpc' = <<"idle">>
    /\ subnet' = sn
    /\ hostw' = [i \in 1..Len(sn) |-> NewHostJob]
    /\ UNCHANGED <<jobRunning, tpc, tscan, tpolls, devlist, errs, queueVars, fnVars>>

\* wait_until_complete lines 313-317, called at any time after new_scan returned:
\* the call returns the scanner when a poll reads scan.running as false
WaitReturn(u) ==
    /\ cpc[u] = "idle"
    /\ WaitSees(scans[u])
    /\ cpc' = [cpc EXCEPT ![u] = "returned"]
    /\ UNCHANGED <<scans, jobRunning, tpc, tscan, tpolls, queueVars, poolVars, fnVars>>

\* ------------------------------------------------------- ReliabilityQueue
\* ReliabilityJob(id=job_id, config=job_config, label=job_label)
NewJob(cfg) ==
    [status |-> "queued", config |-> cfg, scan_id |-> 0, error |-> "",
     started_at |-> FALSE, completed_at |-> FALSE, snapshot |-> FALSE]

\* deque.remove(x): drops the first occurrence of x
RECURSIVE RemoveFirst(_, _)
RemoveFirst(q, x) ==
    IF q = <<>> THEN <<>>
    ELSE IF Head(q) = x THEN Tail(q)
    ELSE <<Head(q)>> \o RemoveFirst(Tail(q), x)

InQueue(q, x) == \E i \in DOMAIN q : q[i] = x

\* mutant: appendleft instead of append
QueueAppend_Left(q, ids) == [i \in 1..Len(ids) |-> ids[Len(ids) + 1 - i]] \o q

\* enqueue line 86: self._queue.append(job_id), for each created id in turn
QueueAppend(q, ids) == q \o ids

\* enqueue line 77: count = max(1, repeat)
EnqueueCount(repeat) == Max(1, repeat)

\* mutant: enqueue does not notify
Notify_Missing(pc) == pc

\* Condition.notify(): a worker blocked in wait() goes back to test its loop condition
Notify(pc) == IF pc = "wait" THEN "loop" ELSE pc

\* enqueue lines 76-89, whole call under the lock; `op`/`arg` name the caller's call
EnqueueAs(log, op, arg, cfg, repeat, cap) ==
    LET count == EnqueueCount(repeat)
        base == Len(jobs)
    IN /\ base + count <= cap
       /\ jobs' = jobs \o [i \in 1..count |-> NewJob(cfg)]
       /\ queue' = QueueAppend(queue, [i \in 1..count |-> base + i])
       /\ submitted' = submitted + count
       /\ wpc' = Notify(wpc)
       /\ Log(log, op, arg, TRUE, [i \in 1..count |-> base + i])
       /\ UNCHANGED <<startOrder, wjob, wexc>>

\* ReliabilityQueue.enqueue called directly
Enqueue(log, cfg, repeat, cap) ==
    /\ EnqueueAs(log, "enqueue", repeat, cfg, repeat, cap)
    /\ UNCHANGED <<scans, jobRunning, scanCallerVars, poolVars, fnVars>>

\* enqueue_reliability_job line 33: int(count or runs or 1), no 'runs' key sent
ApiRepeatRaw(count) == IF count = 0 THEN 1 ELSE count

\* mutant: the handler forgets the upper limit
ApiRepeat_NoCap(raw) == Max(1, raw)

\* enqueue_reliability_job line 34: repeat = max(1, min(repeat_raw, 50))
ApiRepeat(raw) == Max(1, Min(raw, RepeatCap))

\* POST /api/reliability/jobs (enqueue_reliability_job); cfg "invalid": from_dict raises
ApiEnqueue(log, cfg, count, cap) ==
    /\ IF cfg = "invalid"
         THEN /\ Log(log, "api_enqueue", count, FALSE, <<>>)
              /\ UNCHANGED <<jobs, queue, submitted, startOrder, wpc, wjob, wexc>>
         ELSE EnqueueAs(log, "api_enqueue", count, cfg, ApiRepeat(ApiRepeatRaw(count)), cap)
    /\ UNCHANGED <<scans, jobRunning, scanCallerVars, poolVars, fnVars>>

\* cancel lines 116-118
CancelledJob(job) == [job EXCEPT !.status = "cancelled", !.completed_at = TRUE]

\* mutant: a job that has started can still be cancelled
Cancellable_Running(j) == j \in DOMAIN jobs /\ jobs[j].status \in {"queued", "running"}

\* cancel lines 110-111: the job can still be cancelled
Cancellable(j) == j \in DOMAIN jobs /\ jobs[j].status = "queued"

\* mutant: cancel does not test the job's status
Cancel_NoStatusTest(log, j) ==
    /\ IF j \in DOMAIN jobs /\ InQueue(queue, j)
         THEN /\ queue' = RemoveFirst(queue, j)
              /\ jobs' = [jobs EXCEPT ![j] = CancelledJob(jobs[j])]
              /\ Log(log, "cancel", j, TRUE, <<>>)
         ELSE /\ Log(log, "cancel", j, FALSE, <<>>)
              /\ UNCHANGED <<jobs, queue>>
    /\ UNCHANGED <<submitted, startOrder, wpc, wjob, wexc>>
    /\ UNCHANGED <<scans, jobRunning, scanCallerVars, poolVars, fnVars>>

\* ReliabilityQueue.cancel, whole call under the lock
Cancel(log, j) ==
    /\ IF Cancellable(j) /\ InQueue(queue, j)
         THEN /\ queue' = RemoveFirst(queue, j)
              /\ jobs' = [jobs EXCEPT ![j] = CancelledJob(jobs[j])]
              /\ Log(log, "cancel", j, TRUE, <<>>)
         ELSE /\ Log(log, "cancel", j, FALSE, <<>>)
              /\ UNCHANGED <<jobs, queue>>
    /\ UNCHANGED <<submitted, startOrder, wpc, wjob, wexc>>
    /\ UNCHANGED <<scans, jobRunning, scanCallerVars, poolVars, fnVars>>

\* mutant: 'error' is counted under its own name, not under 'errors'
CountKey_Plain(status) == status

\* get_status_counts lines 131-138: the key a job's status is counted under
CountKey(status) == IF status = "error" THEN "errors" ELSE status

\* ReliabilityQueue.get_status_counts
GetStatusCounts ==
    [k \in {"queued", "running", "completed", "errors", "cancelled"} |->
        Cardinality({j \in DOMAIN jobs : CountKey(jobs[j].status) = k})]

\* ------------------------------------------- ReliabilityQueue._worker_loop
\* lines 156-157
RunningJob(job) == [job EXCEPT !.status = "running", !.started_at = TRUE]

\* mutant: the completion block forgets to set the status
CompletedJob_KeepsStatus(job) ==
    [job EXCEPT !.completed_at = TRUE, !.snapshot = TRUE]

\* lines 164-166
CompletedJob(job) ==
    [job EXCEPT !.status = "completed", !.completed_at = TRUE, !.snapshot = TRUE]

\* lines 170-172
ErrorJob(job, exc) ==
    [job EXCEPT !.status = "error", !.error = exc, !.completed_at = TRUE]

\* lines 153-155: the head is skipped (popped) instead of started
SkipHead(j) == j \notin DOMAIN jobs \/ jobs[j].status # "queued"

\* mutant: the test of the head is inverted
ExceptPops_Inverted(q, j) == q # <<>> /\ Head(q) # j

\* lines 173-174: the handler pops the head only when it is the failed job
ExceptPops(q, j) == q # <<>> /\ Head(q) = j

\* lines 145-157, under the lock: wait for an item, then claim the head job
WorkerLoop ==
    /\ wpc = "loop"
    /\ IF queue = <<>>
         THEN /\ wpc' = "wait"
              /\ UNCHANGED <<jobs, queue, startOrder, wjob>>
         ELSE LET j == Head(queue)
              IN IF SkipHead(j)
                   THEN /\ queue' = Tail(queue)
                        /\ UNCHANGED <<jobs, startOrder, wpc, wjob>>
                   ELSE /\ jobs' = [jobs EXCEPT ![j] = RunningJob(jobs[j])]
                        /\ startOrder' = Append(startOrder, j)
                        /\ wjob' = j
                        /\ wpc' = "start"
                        /\ UNCHANGED queue
    /\ UNCHANGED <<submitted, lastOp, wexc, scans, jobRunning, scanCallerVars, poolVars, fnVars>>

\* line 160, _start_scan 176-179, ScanManager.new_scan 291-295 (constructor
\* raises on a bad config; else the scan thread is started and the scan registered)
WorkerStartScan ==
    /\ wpc = "start"
    /\ IF jobs[wjob].config = "bad"
         THEN /\ wexc' = "ValueError"
              /\ wpc' = "except"
              /\ UNCHANGED <<jobs, scans>>
         ELSE /\ scans' = Append(scans, NewScanner(NHosts))
              /\ jobs' = [jobs EXCEPT ![wjob].scan_id = Len(scans) + 1]
              /\ wpc' = "wait_complete"
              /\ UNCHANGED wexc
    /\ UNCHANGED <<queue, submitted, startOrder, lastOp, wjob, jobRunning, scanCallerVars, poolVars, fnVars>>

\* line 161
WorkerWait ==
    /\ wpc = "wait_complete"
    /\ WaitSees(scans[jobs[wjob].scan_id])
    /\ wpc' = "snapshot"
    /\ UNCHANGED <<jobs, queue, submitted, startOrder, lastOp, wjob, wexc,
                   scans, jobRunning, scanCallerVars, poolVars, fnVars>>

\* line 162, _snapshot_scan 204-220: get_runtime raises when end_time is unset
WorkerSnapshot ==
    /\ wpc = "snapshot"
    /\ IF GetRuntimeRaises(scans[jobs[wjob].scan_id])
         THEN wexc' = "TypeError" /\ wpc' = "except"
         ELSE wpc' = "complete" /\ UNCHANGED wexc
    /\ UNCHANGED <<jobs, queue, submitted, startOrder, lastOp, wjob,
                   scans, jobRunning, scanCallerVars, poolVars, fnVars>>

\* mutant: the completion block leaves the job in the deque
WorkerComplete_NoPop ==
    /\ wpc = "complete"
    /\ jobs' = [jobs EXCEPT ![wjob] = CompletedJob(jobs[wjob])]
    /\ wpc' = "loop"
    /\ wjob' = 0
    /\ UNCHANGED <<queue, wexc>>
    /\ UNCHANGED <<submitted, startOrder, lastOp, scans, jobRunning, scanCallerVars, poolVars, fnVars>>

\* lines 163-167, under the lock; popleft on an empty deque raises into the handler
WorkerComplete ==
    /\ wpc = "complete"
    /\ jobs' = [jobs EXCEPT ![wjob] = CompletedJob(jobs[wjob])]
    /\ IF queue = <<>>
         THEN wexc' = "IndexError" /\ wpc' = "except" /\ UNCHANGED <<queue, wjob>>
         ELSE queue' = Tail(queue) /\ wpc' = "loop" /\ wjob' = 0 /\ UNCHANGED wexc
    /\ UNCHANGED <<submitted, startOrder, lastOp, scans, jobRunning, scanCallerVars, poolVars, fnVars>>

\* lines 168-174, under the lock
WorkerExcept ==
    /\ wpc = "except"
    /\ jobs' = [jobs EXCEPT ![wjob] = ErrorJob(jobs[wjob], wexc)]
    /\ queue' = IF ExceptPops(queue, wjob) THEN Tail(queue) ELSE queue
    /\ wpc' = "loop"
    /\ wjob' = 0
    /\ wexc' = ""
    /\ UNCHANGED <<submitted, startOrder, lastOp, scans, jobRunning, scanCallerVars, poolVars, fnVars>>

Worker ==
    \/ WorkerLoop
    \/ WorkerStartScan
    \/ WorkerWait
    \/ WorkerSnapshot
    \/ WorkerComplete
    \/ WorkerExcept

\* ------------------------------------------------------------ specifications
NoOp == [op |-> "none", arg |-> 0, ret |-> FALSE, created |-> <<>>, seq |-> 0]

\* a call that has not returned: nothing returned, nothing raised
NoResult == [done |-> FALSE, val |-> 0, exc |-> ""]
Returned(v) == [done |-> TRUE, val |-> v, exc |-> ""]
Raised(e) == [done |-> TRUE, val |-> 0, exc |-> e]

Init ==
    /\ jobs = <<>>
    /\ queue = <<>>
    /\ submitted = 0
    /\ startOrder = <<>>
    /\ lastOp = NoOp
    /\ wpc = "loop"
    /\ wjob = 0
    /\ wexc = ""
    /\ scans = <<>>
    /\ jobRunning = 0
    /\ cpc = <<>>
    /\ tpc = "idle"
    /\ tscan = 0
    /\ tpolls = 0
    /\ subnet = <<>>
    /\ hostw = <<>>
    /\ devlist = <<>>
    /\ errs = 0
    /\ fin = <<>>
    /\ fout = NoResult
    /\ stats = <<>>
    /\ calls = <<>>

\* the queue with its worker, API callers and the scanners the worker starts
QueueScanThreads ==
    /\ \E u \in DOMAIN scans : QueueScanThread(u)
    /\ UNCHANGED <<queueVars, scanCallerVars, poolVars, fnVars>>

Next ==
    \/ \E cfg \in Configs, r \in 0..MaxRepeat : Enqueue(FALSE, cfg, r, MaxJobs)
    \/ \E j \in 1..(MaxJobs + 1) : Cancel(FALSE, j)
    \/ Worker
    \/ QueueScanThreads

Spec == Init /\ [][Next]_vars

\* the same system, with every API call's result logged in lastOp
NextOps ==
    \/ \E cfg \in Configs, r \in 0..MaxRepeat : Enqueue(TRUE, cfg, r, MaxJobs)
    \/ \E j \in 1..(MaxJobs + 1) : Cancel(TRUE, j)
    \/ Worker
    \/ QueueScanThreads

SpecOps == Init /\ [][NextOps]_vars

\* scheduling: the worker thread and every scan thread keep running
FairSpec ==
    /\ Init
    /\ [][Next]_vars
    /\ WF_vars(Worker)
    /\ WF_vars(QueueScanThreads)

\* API calls alone (the worker has not been scheduled yet): enqueue, directly and
\* through POST /api/reliability/jobs, and cancel
RepeatInputs == (0 - 1)..(RepeatCap + 2)

EnqCap == MaxPrior + RepeatCap + 2

NextEnq ==
    \/ \E r \in RepeatInputs :
          Len(jobs) <= MaxPrior /\ Enqueue(TRUE, "ok", r, EnqCap)
    \/ \E cfg \in {"ok", "invalid"}, c \in RepeatInputs :
          Len(jobs) <= MaxPrior /\ ApiEnqueue(TRUE, cfg, c, EnqCap)
    \/ \E j \in 1..MaxPrior : Cancel(TRUE, j)

SpecEnq == Init /\ [][NextEnq]_vars

\* ScanManager used directly: callers start scans, wait for them and terminate them
ScanManagerThreads == ScanThreads /\ UNCHANGED <<queueVars, scanCallerVars, poolVars, fnVars>>

NextScan ==
    \/ \E cfg \in Configs : NewScan(cfg)
    \/ \E u \in DOMAIN cpc : WaitReturn(u)
    \/ Terminate
    \/ ScanManagerThreads

SpecScan == Init /\ [][NextScan]_vars

\* every variable but fin and fout as after construction
InitRest ==
    /\ jobs = <<>> /\ queue = <<>> /\ submitted = 0 /\ startOrder = <<>>
    /\ lastOp = NoOp /\ wpc = "loop" /\ wjob = 0 /\ wexc = ""
    /\ scans = <<>> /\ jobRunning = 0 /\ cpc = <<>>
    /\ tpc = "idle" /\ tscan = 0 /\ tpolls = 0
    /\ subnet = <<>> /\ hostw = <<>> /\ devlist = <<>> /\ errs = 0
    /\ stats = <<>> /\ calls = <<>>

\* one call of a function on the state fin: fout takes what it returns or raises
Call(result) ==
    /\ ~fout.done
    /\ fout' = result
    /\ UNCHANGED <<queueVars, scans, jobRunning, scanCallerVars, poolVars,
                   fin, stats, calls>>

\* the states of a running or finished scanner that calc_percent_complete reads:
\* devices_total addresses (0 for a range whose end is below its start), of which
\* scanned were pinged and devices answered, nports ports in the port list,
\* pscanned finished _test_port calls, parallelism par in thousandths
PercentInputs ==
    { s \in [running : BOOLEAN, total : 0..MaxTotal, scanned : 0..MaxTotal,
             devices : 0..MaxTotal, nports : 0..MaxPorts,
             pscanned : 0..(MaxTotal * MaxPorts), par : Parallelisms] :
        /\ s.scanned <= s.total
        /\ s.devices <= s.scanned
        /\ s.pscanned <= s.devices * s.nports }

InitPercent == InitRest /\ fin \in PercentInputs /\ fout = NoResult

NextPercent == Call(CalcPercentComplete(fin))

SpecPercent == InitPercent /\ [][NextPercent]_vars

\* ---- job_tracker of libraries/decorators.py, one function name fxn ----
\* stats is job_stats restricted to fxn: has = fxn is a key of running and of
\* finished.  Each call runs wrapper on its own thread; a dict read and the
\* write of the new value are two steps, nothing is locked.

NewStats == [has |-> FALSE, running |-> 0, finished |-> 0]
NewCall == [pc |-> "start", tmp |-> 0]

TrackerStep(i, pc, tmp, st) ==
    /\ calls' = [calls EXCEPT ![i] = [pc |-> pc, tmp |-> tmp]]
    /\ stats' = st
    /\ UNCHANGED <<queueVars, scans, jobRunning, scanCallerVars, poolVars, fin, fout>>

\* init_job_tracker lines 18-19: running[fxn] = running.get(fxn, 0)
InitRunningGet(i) ==
    /\ calls[i].pc = "start"
    /\ TrackerStep(i, "L18", IF stats.has THEN stats.running ELSE 0, stats)

InitRunningSet(i) ==
    /\ calls[i].pc = "L18"
    /\ TrackerStep(i, "L19", 0, [stats EXCEPT !.has = TRUE, !.running = calls[i].tmp])

\* line 19: finished[fxn] = finished.get(fxn, 0)
InitFinishedGet(i) ==
    /\ calls[i].pc = "L19"
    /\ TrackerStep(i, "L19w", stats.finished, stats)

InitFinishedSet(i) ==
    /\ calls[i].pc = "L19w"
    /\ TrackerStep(i, "L6", 0, [stats EXCEPT !.finished = calls[i].tmp])

\* line 6: running[fxn] += 1
RunningIncGet(i) ==
    /\ calls[i].pc = "L6"
    /\ TrackerStep(i, "L6w", stats.running, stats)

RunningIncSet(i) ==
    /\ calls[i].pc = "L6w"
    /\ TrackerStep(i, "L7", 0, [stats EXCEPT !.running = calls[i].tmp + 1])

\* line 7: func raises; the exception leaves wrapper at once
FuncRaises(i) ==
    /\ calls[i].pc = "L7"
    /\ TrackerStep(i, "raised", 0, stats)

\* line 7: func returns
FuncReturns(i) ==
    /\ calls[i].pc = "L7"
    /\ TrackerStep(i, "L8", 0, stats)

\* line 8: running[fxn] -= 1
RunningDecGet(i) ==
    /\ calls[i].pc = "L8"
    /\ TrackerStep(i, "L8w", stats.running, stats)

RunningDecSet(i) ==
    /\ calls[i].pc = "L8w"
    /\ TrackerStep(i, "L9", 0, [stats EXCEPT !.running = calls[i].tmp - 1])

\* line 9: finished[fxn] += 1
FinishedIncGet(i) ==
    /\ calls[i].pc = "L9"
    /\ TrackerStep(i, "L9w", stats.finished, stats)

\* line 10: return result
FinishedIncSet(i) ==
    /\ calls[i].pc = "L9w"
    /\ TrackerStep(i, "returned", 0, [stats EXCEPT !.finished = calls[i].tmp + 1])

JobTracker(i) ==
    \/ InitRunningGet(i) \/ InitRunningSet(i)
    \/ InitFinishedGet(i) \/ InitFinishedSet(i)
    \/ RunningIncGet(i) \/ RunningIncSet(i)
    \/ FuncRaises(i) \/ FuncReturns(i)
    \/ RunningDecGet(i) \/ RunningDecSet(i)
    \/ FinishedIncGet(i) \/ FinishedIncSet(i)

InitTracker ==
    /\ jobs = <<>> /\ queue = <<>> /\ submitted = 0 /\ startOrder = <<>>
    /\ lastOp = NoOp /\ wpc = "loop" /\ wjob = 0 /\ wexc = ""
    /\ scans = <<>> /\ jobRunning = 0 /\ cpc = <<>>
    /\ tpc = "idle" /\ tscan = 0 /\ tpolls = 0
    /\ subnet = <<>> /\ hostw = <<>> /\ devlist = <<>> /\ errs = 0
    /\ fin = <<>> /\ fout = NoResult
    /\ stats = NewStats
    /\ calls = [i \in 1..MaxCalls |-> NewCall]

NextTracker == \E i \in DOMAIN calls : JobTracker(i)

SpecTracker == InitTracker /\ [][NextTracker]_vars

\* ---- parse_ip_input (ip_parser.py) ----
\* An address is its 32-bit integer; an expression is the sequence of its entries
\* after split(',') and strip(); an entry is [kind, a, b]:
\*   "cidr"   a/b          "range"  a-b with b a full address
\*   "short"  a-b with b a last octet      "single"  a

MAX_IPS_ALLOWED == 10000

Ip(o1, o2, o3, o4) == ((o1 * 256 + o2) * 256 + o3) * 256 + o4

Entry(kind, a, b) == [kind |-> kind, a |-> a, b |-> b]

\* ip_range_to_list lines 53-56: range(int(start_ip), int(end_ip) + 1)
IpRangeToList(start_ip, end_ip) ==
    [i \in 1..Max(0, end_ip + 1 - start_ip) |-> start_ip + (i - 1)]

\* IPv4Network(entry, strict=False): the host bits of the address are dropped
NumAddresses(e) == 2 ^ (32 - e.b)
NetworkAddress(e) == e.a - (e.a % NumAddresses(e))

\* mutant: hosts() with the network address
Hosts_WithNetwork(e) ==
    IpRangeToList(NetworkAddress(e), NetworkAddress(e) + NumAddresses(e) - 2)

\* IPv4Network.hosts(): network + 1 .. broadcast - 1; both addresses of a /31;
\* the one address of a /32
Hosts(e) ==
    IF e.b >= 31
      THEN IpRangeToList(NetworkAddress(e), NetworkAddress(e) + NumAddresses(e) - 1)
      ELSE IpRangeToList(NetworkAddress(e) + 1, NetworkAddress(e) + NumAddresses(e) - 2)

\* IPv4Address(text) raises ValueError when an octet is above 255
BadOctet(e) == e.kind = "short" /\ e.b > 255

\* parse_ip_range lines 35-44: an end without '.' takes the first three octets
\* of the start
ParseIpRange(e) ==
    IF e.kind = "short"
      THEN IpRangeToList(e.a, e.a - (e.a % 256) + e.b)
      ELSE IpRangeToList(e.a, e.b)

\* ip_parser.SubnetTooLargeError lines 59-64, raised with the whole ip_input
SubnetTooLargeError(ip_input) ==
    [done |-> TRUE, val |-> 0, exc |-> "SubnetTooLargeError",
     subnet |-> ip_input, max_ips |-> MAX_IPS_ALLOWED]

\* mutant: the cap itself is refused
TooLarge_AtCap(n) == n >= MAX_IPS_ALLOWED

\* lines 15 and 31: the comparison with the cap
TooLarge(n) == n > MAX_IPS_ALLOWED

\* the loop of parse_ip_input lines 11-33 over the entries left, ip_ranges so
\* far: '/' is tested first, then '-', which takes every dashed entry, the
\* shorthand ones too, so the branch of lines 25-26 is never entered
RECURSIVE ParseEntries(_, _, _)
ParseEntries(ip_input, entries, ip_ranges) ==
    IF entries = <<>> THEN Returned(ip_ranges)
    ELSE
      LET e == Head(entries) IN
      IF e.kind = "cidr" /\ TooLarge(NumAddresses(e)) THEN SubnetTooLargeError(ip_input)
      ELSE IF BadOctet(e) THEN Raised("ValueError")
      ELSE
        LET more == CASE e.kind = "cidr" -> Hosts(e)
                      [] e.kind \in {"range", "short"} -> ParseIpRange(e)
                      [] OTHER -> <<e.a>>
            next == ip_ranges \o more
        IN  IF TooLarge(Len(next)) THEN SubnetTooLargeError(ip_input)
                                   ELSE ParseEntries(ip_input, Tail(entries), next)

ParseIpInput(ip_input) == ParseEntries(ip_input, ip_input, <<>>)

\* the entries the expressions of SpecParse are made of
Fragments ==
    { Entry("cidr", Ip(10,0,0,1), 30),        \* 10.0.0.1/30, host bits set
      Entry("range", Ip(10,0,0,10), Ip(10,0,0,12)),
      Entry("short", Ip(10,0,0,20), 22),      \* 10.0.0.20-22
      Entry("single", Ip(10,0,0,50), 0),
      Entry("cidr", Ip(10,0,0,8), 31),
      Entry("cidr", Ip(10,0,0,7), 32),
      Entry("range", Ip(10,0,0,5), Ip(10,0,0,1)),   \* end below start
      Entry("short", Ip(10,0,0,20), 300),     \* 10.0.0.20-300
      Entry("cidr", Ip(10,0,37,9), 19),       \* 8192 addresses, 8190 hosts
      Entry("cidr", Ip(10,1,0,0), 18),        \* 16384 addresses
      Entry("range", Ip(10,2,0,0), Ip(10,2,39,15)),  \* 10000 addresses
      Entry("range", Ip(10,2,0,0), Ip(10,2,39,16)),  \* 10001 addresses
      Entry("range", Ip(10,3,0,0), Ip(10,3,7,17)) }  \* 1810 addresses

\* "10.0.0.1/30, 10.0.0.10-10.0.0.12, 10.0.0.20-22, 10.0.0.50"
MixedExpression ==
    << Entry("cidr", Ip(10,0,0,1), 30), Entry("range", Ip(10,0,0,10), Ip(10,0,0,12)),
       Entry("short", Ip(10,0,0,20), 22), Entry("single", Ip(10,0,0,50), 0) >>

ParseInputs ==
    UNION { [1..n -> Fragments] : n \in 1..MaxFrags } \cup { MixedExpression }

InitParse == InitRest /\ fin \in ParseInputs /\ fout = NoResult

NextParse == Call(ParseIpInput(fin))

SpecParse == InitParse /\ [][NextParse]_vars

\* ---- Device.test_port(port, PortScanConfig) ----
\* c = [retries, outcomes, had]: outcomes[k] is what the k-th connect does
\* ("open" = connect_ex returns 0, "closed" = another code, "exception" = it
\* raises), had = the port is already in device.ports

PortResult(ret, connects, sleeps, listed) ==
    [ret |-> ret, connects |-> connects, sleeps |-> sleeps, listed |-> listed]

\* mutant: an exception during connect ends the call
RECURSIVE TestPortAttempt_ExceptionEnds(_, _)
TestPortAttempt_ExceptionEnds(c, k) ==
    IF c.outcomes[k] = "open" THEN PortResult(TRUE, k, k - 1, TRUE)
    ELSE IF c.outcomes[k] = "exception" \/ k > c.retries
      THEN PortResult(FALSE, k, k - 1, c.had)
      ELSE TestPortAttempt_ExceptionEnds(c, k + 1)

\* the k-th attempt of test_port and those after it: a connect that succeeds
\* records the port and returns true; any other outcome, an exception too, is
\* followed by sleep(retry_delay) and the next attempt while attempts are left
RECURSIVE TestPortAttempt(_, _)
TestPortAttempt(c, k) ==
    IF c.outcomes[k] = "open" THEN PortResult(TRUE, k, k - 1, TRUE)
    ELSE IF k > c.retries THEN PortResult(FALSE, k, k - 1, c.had)
    ELSE TestPortAttempt(c, k + 1)

TestPort(c) == Returned(TestPortAttempt(c, 1))

ConnectOutcomes == {"open", "closed", "exception"}

PortInputs ==
    UNION { [retries : {r}, outcomes : [1..(r + 1) -> ConnectOutcomes], had : BOOLEAN] :
              r \in 0..MaxRetries }

InitPort == InitRest /\ fin \in PortInputs /\ fout = NoResult

NextPort == Call(TestPort(fin))

SpecPort == InitPort /\ [][NextPort]_vars

\* ---- scan_service (core/service_scan.py) ----
\* c = [port, in_loop, probe, sent, received]: in_loop = the calling thread has
\* a running event loop; probe is how _multi_probe_generic ends ("timeout" and
\* "error" = it raises, "tls" = TLS without a readable response, "none" = no
\* response, "text" = a response that names a service), sent and received its
\* probe statistics

PRINTER_PORTS == {9100, 631}

ServiceScanResult(service, probes_sent, probes_received, connected) ==
    [service |-> service, probes_sent |-> probes_sent,
     probes_received |-> probes_received, connected |-> connected]

\* _async_scan_service lines 703-762
AsyncScanService(c) ==
    IF c.port \in PRINTER_PORTS THEN ServiceScanResult("Printer", 0, 0, FALSE)
    ELSE CASE c.probe \in {"timeout", "error"} -> ServiceScanResult("Unknown", 0, 0, TRUE)
           [] c.probe = "tls" -> ServiceScanResult("HTTPS", c.sent, c.received, TRUE)
           [] c.probe = "none" -> ServiceScanResult("Unknown", c.sent, c.received, TRUE)
           [] OTHER -> ServiceScanResult("identified", c.sent, c.received, TRUE)

\* scan_service lines 694-801.  With a running loop in the calling thread the
\* coroutine is handed to that loop and the thread blocks in
\* .result(timeout=cfg.timeout + 5): the loop cannot run it meanwhile, the wait
\* times out and line 796 answers "Unknown"; the coroutine runs after the return
ScanService(c) ==
    IF c.in_loop
      THEN Returned(ServiceScanResult("Unknown", 0, 0, AsyncScanService(c).connected))
      ELSE Returned(AsyncScanService(c))

ServiceInputs ==
    { c \in [port : PRINTER_PORTS \cup {22, 80}, in_loop : BOOLEAN,
             probe : {"timeout", "error", "tls", "none", "text"},
             sent : 1..MaxProbes, received : 0..MaxProbes] :
        c.received <= c.sent }

InitService == InitRest /\ fin \in ServiceInputs /\ fout = NoResult

NextService == Call(ScanService(fin))

SpecService == InitService /\ [][NextService]_vars

\* ---- ScanConfig.from_dict (libraries/scan_config.py) ----
\* A config is [subnet, port_list, task_scan_ports, lookup_type, ping_config,
\* arp_config], lookup_type a member name of ScanType; the other scalar fields
\* behave as task_scan_ports does.

ScanTypeNames == {"PING", "ARP", "BOTH"}

\* str.lower() on the spellings of the member names
Lower(s) ==
    CASE s \in {"PING", "ping"} -> "ping"
      [] s \in {"ARP", "arp"} -> "arp"
      [] s \in {"BOTH", "both"} -> "both"
      [] OTHER -> s

\* fields(ScanConfig) in order, with whether the class has an attribute of that
\* name: a field with no default or with a default_factory has none
ScanConfigFields ==
    << [name |-> "subnet", class_attr |-> FALSE],
       [name |-> "port_list", class_attr |-> FALSE],
       [name |-> "task_scan_ports", class_attr |-> TRUE],
       [name |-> "lookup_type", class_attr |-> TRUE],
       [name |-> "ping_config", class_attr |-> FALSE],
       [name |-> "arp_config", class_attr |-> FALSE] >>

\* to_dict: every field under its name, the sub-configs as dicts, the enum by
\* its member name
ToDict(c) ==
    [subnet |-> c.subnet, port_list |-> c.port_list,
     task_scan_ports |-> c.task_scan_ports, lookup_type |-> c.lookup_type,
     ping_config |-> [attempts |-> c.ping_config.attempts],
     arp_config |-> [timeout |-> c.arp_config.timeout]]

\* from_dict lines 70-82: line 72 evaluates getattr(ScanConfig, f.name) for
\* every field, the key being present or not; line 80 looks the lowered name up
\* among the member names
FromDict(data) ==
    IF \E k \in DOMAIN ScanConfigFields : ~ScanConfigFields[k].class_attr
      THEN Raised("AttributeError")
    ELSE IF Lower(data.lookup_type) \notin ScanTypeNames
      THEN Raised("KeyError")
    ELSE Returned([subnet |-> data.subnet, port_list |-> data.port_list,
                   task_scan_ports |-> data.task_scan_ports,
                   lookup_type |-> Lower(data.lookup_type),
                   ping_config |-> [attempts |-> data.ping_config.attempts],
                   arp_config |-> [timeout |-> data.arp_config.timeout]])

\* the dict with the enum name spelled in lower case
Lowered(data) == [data EXCEPT !.lookup_type = Lower(data.lookup_type)]

ConfigInputs ==
    [cfg : [subnet : {"10.0.0.1/30", "10.0.0.1-3"}, port_list : {"small", "large"},
            task_scan_ports : BOOLEAN, lookup_type : ScanTypeNames,
            ping_config : [attempts : 1..MaxAttempts],
            arp_config : [timeout : 1..MaxAttempts]],
     lower : BOOLEAN]

InitConfig == InitRest /\ fin \in ConfigInputs /\ fout = NoResult

NextConfig ==
    Call(FromDict(IF fin.lower THEN Lowered(ToDict(fin.cfg)) ELSE ToDict(fin.cfg)))

SpecConfig == InitConfig /\ [][NextConfig]_vars

\* new_scan lines 291-295 with a config whose task_scan_ports is as given: the
\* constructor (lines 39-50) and start() read subnet, port_list and parallelism
\* of the config and nothing else
NewScanTasks(task_scan_ports) ==
    /\ Len(scans) < MaxScans
    /\ scans' = Append(scans, [NewScanner(NHosts) EXCEPT
                                  !.task_scan_ports = task_scan_ports])
    /\ cpc' = Append(cpc, "idle")
    /\ UNCHANGED <<queueVars, poolVars, fnVars>>
    /\ UNCHANGED <<jobRunning, tpc, tscan, tpolls>>

NextTasks ==
    \/ \E task_scan_ports \in BOOLEAN : NewScanTasks(task_scan_ports)
    \/ Terminate
    \/ ScanManagerThreads

SpecTasks == Init /\ [][NextTasks]_vars

\* ---- worker-pool sizes ----
\* ScanConfig.t_cnt lines 66-67 (scan_config.py):
\* int(int(t_cnt_<id>) * float(t_multiplier)), the multiplier in thousandths
ConfigTCnt(base_threads, mult) == (base_threads * mult) \div 1000

\* the multipliers of SpecSizing in thousandths: small ones, and the quarters up
\* to MaxMult / 4
Multipliers == {1, 3, 4, 7, 8, 50, 99, 100} \cup { 250 * k : k \in 1..MaxMult }

SizingInputs ==
    [fn : {"_t_cnt", "t_cnt"},
     base : {TCNT_PORT_SCANS, TCNT_PORT_TEST, TCNT_DEVICE_ISALIVE},
     mult : Multipliers]

InitSizing == InitRest /\ fin \in SizingInputs /\ fout = NoResult

NextSizing ==
    Call(Returned(IF fin.fn = "_t_cnt" THEN T_cnt(fin.base, fin.mult)
                                       ELSE ConfigTCnt(fin.base, fin.mult)))

SpecSizing == InitSizing /\ [][NextSizing]_vars

\* ---- _multi_probe_generic (core/service_scan.py) ----
\* calls[i] is the task of probe i: st is "pending", "done" or "cancelled",
\* reply what limited_probe gave ("none" = (None, None), "blank" = whitespace
\* only, "text" = a non-whitespace reply, "raise" = the task raised), seen =
\* as_completed has handed it to the loop.  stats holds the coroutine's position
\* and its locals response_found (0 = None, else the probe) and probes_received.

NewProbeTask == [st |-> "pending", reply |-> "none", seen |-> FALSE]
NewProbeLocals == [pc |-> "loop", response_found |-> 0, probes_received |-> 0]

ProbeReplies == {"none", "blank", "text", "raise"}

ProbeStep(st, cs) ==
    /\ stats' = st
    /\ calls' = cs
    /\ UNCHANGED <<queueVars, scans, jobRunning, scanCallerVars, poolVars, fin, fout>>

\* t.cancel() for every task that is not done, lines 507-509 and 516-518
CancelPending(cs) ==
    [i \in DOMAIN cs |-> IF cs[i].st = "pending" THEN [cs[i] EXCEPT !.st = "cancelled"]
                                                   ELSE cs[i]]

\* a probe task ends by itself: limited_probe returns or raises, lines 462-468
ProbeTaskEnds(i, reply) ==
    /\ stats.pc = "loop"
    /\ calls[i].st = "pending"
    /\ ProbeStep(stats, [calls EXCEPT ![i] = [@ EXCEPT !.st = "done", !.reply = reply]])

\* one pass of the loop of lines 476-510 on the next finished task i: a raise or
\* (None, None) is skipped; any other reply is counted; the first
\* non-whitespace one becomes response_found, the tasks not done are cancelled
\* and the loop is left
ProbeLoop(i) ==
    /\ stats.pc = "loop"
    /\ calls[i].st = "done"
    /\ ~calls[i].seen
    /\ LET cs == [calls EXCEPT ![i].seen = TRUE]
           counted == [stats EXCEPT !.probes_received =
                          IF calls[i].reply \in {"blank", "text"} THEN @ + 1 ELSE @]
       IN  IF calls[i].reply = "text" /\ stats.response_found = 0
             THEN ProbeStep([counted EXCEPT !.response_found = i, !.pc = "finally"],
                            CancelPending(cs))
             ELSE ProbeStep(counted, cs)

\* as_completed runs out: every task was handed over, or cfg.timeout passed and
\* the TimeoutError of each remaining await is taken by line 479
ProbeLoopEnds ==
    /\ stats.pc = "loop"
    /\ \A i \in DOMAIN calls : calls[i].seen \/ calls[i].st = "pending"
    /\ ProbeStep([stats EXCEPT !.pc = "finally"], calls)

\* mutant: the finally block only gathers the tasks that are done
ProbeFinally_NoCancel ==
    /\ stats.pc = "finally"
    /\ ProbeStep([stats EXCEPT !.pc = "returned"], calls)

\* lines 513-519 and 531-538: cancel what is not done, gather, return
ProbeFinally ==
    /\ stats.pc = "finally"
    /\ ProbeStep([stats EXCEPT !.pc = "returned"], CancelPending(calls))

InitProbe ==
    /\ jobs = <<>> /\ queue = <<>> /\ submitted = 0 /\ startOrder = <<>>
    /\ lastOp = NoOp /\ wpc = "loop" /\ wjob = 0 /\ wexc = ""
    /\ scans = <<>> /\ jobRunning = 0 /\ cpc = <<>>
    /\ tpc = "idle" /\ tscan = 0 /\ tpolls = 0
    /\ subnet = <<>> /\ hostw = <<>> /\ devlist = <<>> /\ errs = 0
    /\ fin = <<>> /\ fout = NoResult
    /\ stats = NewProbeLocals
    /\ \E n \in 1..(MaxProbes + 1) : calls = [i \in 1..n |-> NewProbeTask]

NextProbe ==
    \/ \E i \in DOMAIN calls, reply \in ProbeReplies : ProbeTaskEnds(i, reply)
    \/ \E i \in DOMAIN calls : ProbeLoop(i)
    \/ ProbeLoopEnds
    \/ ProbeFinally

SpecProbe == InitProbe /\ [][NextProbe]_vars

\* ---- _identify_service (core/service_scan.py) ----
\* c = [bin, text, is_tls, legacy]: bin = the entries of BINARY_SIGNATURES whose
\* pattern is in response_bytes, text = the entries of SERVICE_MATCHERS that
\* match response, legacy = a hint of the SERVICES definitions is in response

\* entries of BINARY_SIGNATURES, in table order
BINARY_SIGNATURES ==
    << [name |-> "TLS", weight |-> 50],      \* \x15\x03
       [name |-> "RPC", weight |-> 45],      \* \x05\x00
       [name |-> "Redis", weight |-> 30],    \* -ERR
       [name |-> "SSH", weight |-> 50],      \* SSH-
       [name |-> "SOCKS5", weight |-> 55],   \* \x05\x00
       [name |-> "LPD", weight |-> 25] >>    \* \x00

\* entries of SERVICE_MATCHERS, in table order
SERVICE_MATCHERS ==
    << [name |-> "WebSocket", weight |-> 100],
       [name |-> "HTTPS", weight |-> 80],
       [name |-> "HTTP", weight |-> 50],
       [name |-> "SSH", weight |-> 70] >>

\* _match_binary_signature lines 398-405: the first entry in table order whose
\* pattern is in the data, or None (<<>>)
MatchBinarySignature(bin) ==
    IF bin = {} THEN <<>>
    ELSE <<BINARY_SIGNATURES[CHOOSE m \in bin : \A n \in bin : m <= n]>>

\* lines 675-680 from matcher k on: a matcher that matches replaces the best
\* one when its weight is strictly greater
RECURSIVE TextMatchers(_, _, _)
TextMatchers(best, text, k) ==
    IF k > Len(SERVICE_MATCHERS) THEN best
    ELSE TextMatchers(IF k \in text /\ SERVICE_MATCHERS[k].weight > best.weight
                        THEN SERVICE_MATCHERS[k] ELSE best,
                      text, k + 1)

\* _identify_service lines 639-691
IdentifyService(c) ==
    LET seed == IF c.is_tls THEN [name |-> "HTTPS", weight |-> 80]
                            ELSE [name |-> "Unknown", weight |-> 0]
        match == MatchBinarySignature(c.bin)
        afterBinary == IF match # <<>> /\ match[1].weight > seed.weight
                         THEN match[1] ELSE seed
        afterText == TextMatchers(afterBinary, c.text, 1)
    IN  IF afterText.weight = 0 /\ c.legacy
          THEN [name |-> "legacy", weight |-> 30]
          ELSE afterText

\* the entries RPC and SOCKS5 have the same pattern and match together
IdentifyInputs ==
    { c \in [bin : SUBSET DOMAIN BINARY_SIGNATURES, text : SUBSET DOMAIN SERVICE_MATCHERS,
             is_tls : BOOLEAN, legacy : BOOLEAN] :
        (2 \in c.bin) <=> (5 \in c.bin) }

InitIdentify == InitRest /\ fin \in IdentifyInputs /\ fout = NoResult

NextIdentify == Call(Returned(IdentifyService(fin)))

SpecIdentify == InitIdentify /\ [][NextIdentify]_vars

\* ---- _clean_response (core/service_scan.py) ----
\* A response is given by its numbers of characters: lead and trail whitespace
\* at its ends, printable characters (newlines and tabs inside count as such)
\* and ctl other control characters; the result by its length and whether it
\* ends with the marker '...'

MAX_RESPONSE_LENGTH == 512

\* _clean_response lines 611-636: strip(), every control character becomes the
\* four characters \xNN, and a longer text is cut to cleaned[:512] + '...'
CleanResponse(s) ==
    LET stripped == s.printable + s.ctl
        cleaned == s.printable + 4 * s.ctl
    IN  IF s.lead + stripped + s.trail = 0 THEN [len |-> 0, marker |-> FALSE]
        ELSE IF cleaned > MAX_RESPONSE_LENGTH
          THEN [len |-> MAX_RESPONSE_LENGTH + 3, marker |-> TRUE]
          ELSE [len |-> cleaned, marker |-> FALSE]

CleanInputs ==
    [lead : 0..1, trail : 0..1,
     printable : {0, 1, 500, 508, 509, 512, 513, 600},
     ctl : 0..MaxCtl]

InitClean == InitRest /\ fin \in CleanInputs /\ fout = NoResult

NextClean == Call(Returned(CleanResponse(fin)))

SpecClean == InitClean /\ [][NextClean]_vars

\* ---- concurrent scanners ----
\* new_scan lines 291-295, called while earlier scans are still running; every
\* SubnetScanner takes JobStats() (line 44), the one instance of the process
NewScanPair ==
    /\ Len(scans) < MaxPair
    /\ scans' = Append(scans, NewScanner(NHosts))
    /\ cpc' = Append(cpc, "idle")
    /\ UNCHANGED <<queueVars, poolVars, fnVars>>
    /\ UNCHANGED <<jobRunning, tpc, tscan, tpolls>>

NextPair ==
    \/ NewScanPair
    \/ Terminate
    \/ ScanManagerThreads

SpecPair == Init /\ [][NextPair]_vars

\* callers of new_scan with good and bad configs, every call logged, and the
\* threads of the scans that were started
NextNew ==
    \/ \E k \in DOMAIN ConfigKinds : NewScanAs(TRUE, k)
    \/ ScanManagerThreads

SpecNew == Init /\ [][NextNew]_vars

\* one scan with its liveness pool call by call; it may be terminated.  The
\* subnet expression names PoolHosts addresses, all different or the last
\* fragment naming the first address again
Subnets ==
    { [i \in 1..PoolHosts |-> i],
      [i \in 1..PoolHosts |-> IF i = PoolHosts THEN 1 ELSE i] }

PoolThreads ==
    /\ scans # <<>>
    /\ PoolScanThread
    /\ UNCHANGED <<queueVars, scanCallerVars, fnVars>>

NextPool ==
    \/ \E sn \in Subnets : NewScanSubnet(sn)
    \/ PoolThreads
    \/ Terminate

SpecPool == Init /\ [][NextPool]_vars

\* scheduling: the scan thread and the pool workers keep running
FairSpecPool ==
    /\ Init
    /\ [][NextPool]_vars
    /\ WF_vars(PoolThreads)

\* ------------------------------------------------------------------ claims
JobsWith(st) == {j \in DOMAIN jobs : jobs[j].status = st}

\* C1: at most one job of the queue has status 'running', in every reachable state
\* under any interleaving of enqueue, cancel and the worker loop.
C1_AtMostOneRunning == Cardinality(JobsWith("running")) <= 1

\* C1 witness: a job is running while another job waits behind it
C1_Witness == JobsWith("running") # {} /\ JobsWith("queued") # {}

\* C2: a job the worker marked 'completed' has a scanner that really finished
\* (running false, stage complete or terminated), and no two scanners started by
\* the queue are in progress at the same time.
C2_CompletedMeansFinished ==
    /\ \A j \in JobsWith("completed") : Finished(scans[jobs[j].scan_id])
    /\ Cardinality({u \in DOMAIN scans : scans[u].pc # "done"}) <= 1

\* C3: from the return of new_scan until the scan ends scanner.running is true,
\* and when wait_until_complete returns the scan has finished (running false,
\* stage complete or terminated).
C3_WaitReturnsFinished ==
    [][/\ \A u \in DOMAIN scans' :
            (scans'[u].pc \notin {"L78", "done"} /\ ~scans'[u].term)
                => scans'[u].running
       /\ \A u \in DOMAIN cpc :
            (cpc[u] = "idle" /\ cpc'[u] = "returned") => Finished(scans'[u])]_vars

\* C4: jobs become running in the order they were enqueued, and a job that ran
\* has reached its final status before the next one becomes running.
C4_FifoOrder ==
    \A i, k \in DOMAIN startOrder :
        i < k => /\ startOrder[i] < startOrder[k]
                 /\ jobs[startOrder[i]].status \in {"completed", "error"}

\* C4 witness: two jobs have been started, and the first was cancelled or failed
\* or completed while the second waited
C4_Witness == Len(startOrder) >= 2

\* C5: cancel(id) returns true exactly when the job exists and is 'queued' at the
\* call; it then marks the job 'cancelled' and removes the id from the deque,
\* and otherwise it returns false and changes no job and no deque entry.
C5_CancelContract ==
    [][(lastOp' # lastOp /\ lastOp'.op = "cancel") =>
         LET j == lastOp'.arg
             queued == j \in DOMAIN jobs /\ jobs[j].status = "queued"
         IN /\ lastOp'.ret <=> queued
            /\ lastOp'.ret =>
                 /\ jobs'[j].status = "cancelled"
                 /\ \A k \in DOMAIN jobs : k # j => jobs'[k] = jobs[k]
                 /\ DOMAIN jobs' = DOMAIN jobs
                 /\ ~InQueue(queue', j)
                 /\ queue' = SelectSeq(queue, LAMBDA x : x # j)
            /\ ~lastOp'.ret => jobs' = jobs /\ queue' = queue]_vars

\* C5 witness: a cancel has just succeeded while another job is running
C5_Witness ==
    /\ lastOp.op = "cancel"
    /\ lastOp.ret
    /\ jobs[lastOp.arg].status = "cancelled"
    /\ JobsWith("running") # {}

\* C6: completed + errors + cancelled = submitted - queued - running for the
\* counts get_status_counts returns, and every submitted job has exactly one of
\* the five statuses.
C6_CountsConserved ==
    LET c == GetStatusCounts
    IN /\ c["completed"] + c["errors"] + c["cancelled"]
            = submitted - c["queued"] - c["running"]
       /\ Len(jobs) = submitted
       /\ \A j \in DOMAIN jobs :
            jobs[j].status \in {"queued", "running", "completed", "error", "cancelled"}

\* C6 witness: a failed job and a cancelled job are both counted
C6_Witness == JobsWith("error") # {} /\ JobsWith("cancelled") # {}

\* what an enqueue call that has just returned did: n new jobs, all 'queued',
\* appended at the tail of the deque in creation order
EnqueuedExactly(n) ==
    /\ Len(lastOp'.created) = n
    /\ Len(jobs') = Len(jobs) + n
    /\ \A k \in DOMAIN jobs : jobs'[k] = jobs[k]
    /\ queue' = queue \o lastOp'.created
    /\ \A i \in 1..n : /\ lastOp'.created[i] = Len(jobs) + i
                       /\ jobs'[Len(jobs) + i].status = "queued"

\* C7 as stated: enqueue(config, label, repeat) creates exactly
\* min(max(repeat, 1), 50) new queued jobs at the tail, in creation order.
C7_Original ==
    [][(lastOp' # lastOp /\ lastOp'.op = "enqueue") =>
         EnqueuedExactly(Min(Max(lastOp'.arg, 1), RepeatCap))]_vars

\* C7 amended: enqueue(config, label, repeat) creates exactly max(repeat, 1) new
\* queued jobs at the tail, in creation order; the limit of 50 is applied by the
\* HTTP handler, so a POST with count c creates min(max(c, 1), 50) jobs.
C7_EnqueueCreates ==
    [][/\ (lastOp' # lastOp /\ lastOp'.op = "enqueue") =>
            EnqueuedExactly(Max(lastOp'.arg, 1))
       /\ (lastOp' # lastOp /\ lastOp'.op = "api_enqueue" /\ lastOp'.ret) =>
            EnqueuedExactly(Min(Max(lastOp'.arg, 1), RepeatCap))]_vars

\* C7 witness: a POST asking for more than 50 runs has created 50 jobs behind
\* jobs that were already in the deque
C7_Witness ==
    /\ lastOp.op = "api_enqueue"
    /\ lastOp.arg > RepeatCap
    /\ Len(lastOp.created) = RepeatCap
    /\ Len(queue) > RepeatCap

\* C8: when starting a job's scan or waiting for it raises, the worker marks the
\* job 'error' with the exception's message, removes it from the deque and goes
\* back to its loop, where the jobs behind it are still queued.
C8_ErrorHandled ==
    [][(wpc = "except" /\ wpc' # "except") =>
         /\ jobs'[wjob].status = "error"
         /\ jobs'[wjob].error = wexc
         /\ wexc # ""
         /\ ~InQueue(queue', wjob)
         /\ queue' = SelectSeq(queue, LAMBDA x : x # wjob)
         /\ \A k \in DOMAIN jobs : k # wjob => jobs'[k] = jobs[k]
         /\ wpc' = "loop"]_vars

\* C8 witness: a job failed and a job enqueued after it was started
C8_Witness ==
    \E j, k \in DOMAIN jobs :
        /\ j < k
        /\ jobs[j].status = "error"
        /\ jobs[j].error # ""
        /\ jobs[k].status \in {"running", "completed"}

FinalStatus == {"completed", "error", "cancelled"}

\* C9: under fair scheduling of the worker and of the scan threads, every job
\* that was enqueued and is not cancelled eventually is 'completed' or 'error'.
C9_EveryJobFinishes ==
    \A j \in 1..MaxJobs :
        (j \in DOMAIN jobs) ~> (j \in DOMAIN jobs /\ jobs[j].status \in FinalStatus)

\* C9 witness: the worker was blocked on the empty deque's condition and a job
\* enqueued later has been processed to 'completed'
C9_Witness ==
    /\ Len(startOrder) >= 2
    /\ \A j \in DOMAIN jobs : jobs[j].status \in {"completed", "error"}
    /\ JobsWith("completed") # {}
    /\ wpc = "wait"

\* C10: while a scanner has not been terminated its stage only moves forward in
\* instantiated -> scanning devices -> testing ports -> service scanning ->
\* complete, and never leaves 'complete'.
C10_StageMonotonic ==
    [][\A u \in DOMAIN scans :
         ~scans'[u].term =>
            /\ StageRank(scans'[u].stage) <= 4
            /\ StageRank(scans'[u].stage) >= StageRank(scans[u].stage)]_vars

\* C10 witness: a scan that was never terminated has reached 'complete'
C10_Witness ==
    \E u \in DOMAIN scans :
        /\ ~scans[u].term
        /\ scans[u].stage = "complete"
        /\ scans[u].pc = "done"

\* ------------------------------------------------- claims on the scanner
TermStages == {"terminating", "terminated"}

TerminalStages == {"complete", "terminated"}

\* C11: once terminate() has been called on a scanner its stage never again takes
\* a value other than 'terminating' and 'terminated': every later change of stage
\* goes to 'terminating' or from 'terminating' to 'terminated', and 'terminated'
\* stays, whatever the thread running start() does.
C11_TerminatedSticks ==
    [][\A u \in DOMAIN scans :
          (scans[u].term /\ scans'[u].stage # scans[u].stage)
             => /\ scans'[u].stage \in TermStages
                /\ scans[u].stage # "terminated"]_vars

\* C12: at the step where terminate() returns True, JobStats.running is empty and
\* the stage of the scanner is 'terminated'.
C12_ReturnMeansQuiet ==
    [][(tpc = "L88" /\ tpc' = "returned")
          => (jobRunning' = 0 /\ scans'[tscan].stage = "terminated")]_vars

\* C13: at the step where terminate() raises SubnetScanTerminationFailure (the
\* running map was not empty at each of the 20 polls) the stage of the scanner is
\* 'terminating'.
C13_RaiseLeavesTerminating ==
    [][(tpc = "L85" /\ tpc' = "raised")
          => scans'[tscan].stage = "terminating"]_vars

\* C17: in every reachable state of a scanner, end_time is set if and only if
\* the stage is 'complete' or 'terminated'.
C17_EndTimeIffTerminal ==
    \A u \in DOMAIN scans :
        scans[u].end_time <=> scans[u].stage \in TerminalStages

\* C18: in every reachable state of a scanner, running is false if and only if
\* the stage is 'complete' or 'terminated'.
C18_RunningIffNotTerminal ==
    \A u \in DOMAIN scans :
        (~scans[u].running) <=> scans[u].stage \in TerminalStages

\* C14: at every moment of a scan, under any interleaving of the liveness
\* workers, len(results.devices) <= devices_scanned <= devices_total.
C14_CountersOrdered ==
    scans # <<>> =>
        /\ Len(devlist) <= scans[1].scanned
        /\ scans[1].scanned <= Len(subnet)

\* C15: when a scan that was not terminated is at stage 'complete',
\* devices_scanned equals devices_total: every host was counted exactly once and
\* no increment of a liveness worker was lost.
C15_AllHostsCounted ==
    (scans # <<>> /\ ~scans[1].term /\ scans[1].stage = "complete")
        => scans[1].scanned = Len(subnet)

\* C16: every started scan that is not terminated eventually is at stage
\* 'complete' with running false, also when the job of a host or the port test
\* of a port raises.
C16_ScanCompletes ==
    (scans # <<>>) ~>
        (scans # <<>> /\ (scans[1].term
                          \/ (scans[1].stage = "complete" /\ ~scans[1].running)))

\* C19: every device in results.devices was appended after its liveness check
\* returned alive: no device of the list has alive false or unknown.
C19_OnlyAliveListed ==
    \A k \in DOMAIN devlist : devlist[k].alive = "true"

\* C19 witness: a device is in the list while a host whose liveness check said
\* not alive, or was cut short by terminate(), has returned without being listed
C19_Witness ==
    /\ devlist # <<>>
    /\ \E i \in DOMAIN hostw : hostw[i].pc = "done" /\ hostw[i].alive = "false"
    /\ Len(devlist) < Len(subnet)

C21_FrozenAtComplete ==
    [][(scans # <<>> /\ scans[1].stage = "complete")
          => /\ scans'[1].stage = "complete"
             /\ devlist' = devlist
             /\ scans'[1].scanned = scans[1].scanned
             /\ scans'[1].end_time = scans[1].end_time]_vars

\* C30: after terminate() has set running to false on a scanner, the scan thread
\* never sets it back to true and no job-tracked call of the scanner begins its
\* body, also when terminate() is called before start() ran its first statements.
C30_FlagStaysDown ==
    [][\A u \in DOMAIN scans :
          scans[u].term => (~scans'[u].running /\ jobRunning' <= jobRunning)]_vars

\* C22: new_scan with a malformed or oversize subnet or an unknown port list
\* raises to the caller, registers no scanner and starts no thread:
\* ScanManager.scans and every scan in it are as before the call.
C22_BadConfigStartsNothing ==
    [][(lastOp' # lastOp /\ lastOp'.op = "new_scan"
          /\ ConfigKinds[lastOp'.arg] # "ok")
         => (~lastOp'.ret /\ scans' = scans)]_vars

\* C22 witness: a call with an unknown port list has raised while an earlier
\* scan is registered
C22_Witness ==
    /\ lastOp.op = "new_scan"
    /\ ConfigKinds[lastOp.arg] = "unknown ports"
    /\ ~lastOp.ret
    /\ Len(scans) >= 1

\* C23: calc_percent_complete returns an integer in 0..100 in every state of a
\* scanner and never raises, also with devices_total = 0, an empty port list or
\* a small parallelism; it returns 100 when the scanner is not running.
C23_PercentInRange ==
    fout.done => /\ fout.exc = ""
                 /\ fout.val \in 0..100
                 /\ ~fin.running => fout.val = 100

\* C24: running[x] never goes below 0; a job-tracked call that raises still
\* decrements running[x] and increments finished[x]; once every tracked call
\* has returned or raised, x is no key of running (and finished[x] counts
\* every call).
C24_TrackerBalanced ==
    /\ stats.running >= 0
    /\ (\A i \in DOMAIN calls : calls[i].pc \in {"returned", "raised"})
          => (~stats.has /\ stats.finished = Len(calls))

\* what an entry stands for, stated without expanding it: the number of its
\* addresses and the first of them
EntryCount(e) ==
    CASE e.kind = "cidr" -> IF e.b = 32 THEN 1 ELSE IF e.b = 31 THEN 2 ELSE 2 ^ (32 - e.b) - 2
      [] e.kind = "range" -> IF e.b >= e.a THEN e.b - e.a + 1 ELSE 0
      [] e.kind = "short" -> IF e.b >= e.a % 256 THEN e.b - (e.a % 256) + 1 ELSE 0
      [] OTHER -> 1

EntryFirst(e) ==
    IF e.kind = "cidr"
      THEN (e.a \div (2 ^ (32 - e.b))) * (2 ^ (32 - e.b)) + (IF e.b >= 31 THEN 0 ELSE 1)
      ELSE e.a

RECURSIVE CountUpTo(_, _)
CountUpTo(x, k) == IF k = 0 THEN 0 ELSE CountUpTo(x, k - 1) + EntryCount(x[k])

\* the first entry that takes the cumulative count past the cap, with no
\* malformed entry before it (0 = none)
FirstOver(x) ==
    LET over == { k \in DOMAIN x : /\ CountUpTo(x, k) > 10000
                                   /\ \A j \in 1..k : ~(x[j].kind = "short" /\ x[j].b > 255) }
    IN  IF over = {} THEN 0 ELSE CHOOSE k \in over : \A j \in over : k <= j

OpenAttempts(c) == { k \in 1..(c.retries + 1) : c.outcomes[k] = "open" }

C28_PrinterNeverProbed ==
    (fout.done /\ fin.port \in {9100, 631}) =>
        /\ fout.val.service = "Printer"
        /\ fout.val.probes_sent = 0
        /\ fout.val.probes_received = 0
        /\ ~fout.val.connected

\* C29: ScanConfig.from_dict(C.to_dict()) = C for every ScanConfig C: the scalar
\* fields, the ping and arp sub-configs and the lookup_type survive, whatever
\* the case the enum name is spelled in.
C29_RoundTrip ==
    fout.done => (fout.exc = "" /\ fout.val = fin.cfg)

\* C31: no port test of a scan starts before every liveness job of that scan
\* has finished: the scan thread is at or past 'testing ports' only when every
\* _get_host_details call has returned or raised, and the port jobs are those
\* of devices already in results.devices.
C31_PortsAfterLiveness ==
    (scans # <<>> /\ scans[1].pc \in {"L76", "L160", "L77", "L78", "done", "dead"})
        => /\ \A i \in DOMAIN hostw : hostw[i].pc \in {"done", "raised"}
           /\ scans[1].pc = "L160" => scans[1].todo + scans[1].active <= Len(devlist)

\* C31 witness: a port job is running over a device the liveness stage listed
C31_Witness ==
    /\ scans # <<>>
    /\ scans[1].pc = "L160"
    /\ scans[1].active > 0
    /\ Len(devlist) > 0

C33_PoolFloorOne ==
    fout.done =>
        /\ fout.val >= 1
        /\ fout.val * 1000 <= Max(1000, fin.base * fin.mult)
        /\ (fout.val + 1) * 1000 > fin.base * fin.mult

\* C34: when _multi_probe_generic returns, whether by a first non-whitespace
\* reply, by the timeout or by an error, every probe task is finished or
\* cancelled; and once a reply is the candidate no later reply replaces it.
C34_ProbesSettled ==
    [][/\ stats'.pc = "returned" => \A i \in DOMAIN calls' : calls'[i].st # "pending"
       /\ stats.response_found # 0 => stats'.response_found = stats.response_found]_vars

\* C34 witness: returned on a first reply with a sibling cancelled
C34_Witness ==
    /\ stats.pc = "returned"
    /\ stats.response_found # 0
    /\ \E i \in DOMAIN calls : calls[i].st = "cancelled"

\* every candidate of the call c: each matching binary signature, each
\* matching text matcher, and the HTTPS seed when is_tls
Candidates(c) ==
    { BINARY_SIGNATURES[k] : k \in c.bin } \cup { SERVICE_MATCHERS[k] : k \in c.text }
        \cup (IF c.is_tls THEN {[name |-> "HTTPS", weight |-> 80]} ELSE {})

\* C35: _identify_service returns a candidate of maximum weight among all that
\* match; the legacy hints (weight 30) are used only when no candidate
\* matches, and 'Unknown' only when nothing matches at all.
C35_MaxWeightWins ==
    fout.done =>
        IF Candidates(fin) # {}
          THEN /\ fout.val \in Candidates(fin)
               /\ \A x \in Candidates(fin) : x.weight <= fout.val.weight
          ELSE fout.val = IF fin.legacy THEN [name |-> "legacy", weight |-> 30]
                                        ELSE [name |-> "Unknown", weight |-> 0]

\* C36: _clean_response never returns more than 512 characters, the '...'
\* marker included.
C36_AtMost512 ==
    fout.done => fout.val.len <= 512

\* C37: every id of the deque appears in it once and names a job that is
\* 'queued', or 'running' if it is the head; a running job is at the head, no
\* completed, error or cancelled job is in the deque, and the job the worker is
\* processing is the head, so that its popleft removes that job.
C37_DequeInvariant ==
    /\ \A i, k \in DOMAIN queue : i # k => queue[i] # queue[k]
    /\ \A i \in DOMAIN queue :
          /\ queue[i] \in DOMAIN jobs
          /\ \/ jobs[queue[i]].status = "queued"
             \/ i = 1 /\ jobs[queue[i]].status = "running"
    /\ \A j \in DOMAIN jobs :
          jobs[j].status = "running" => queue # <<>> /\ Head(queue) = j
    /\ \A j \in DOMAIN jobs :
          jobs[j].status \in FinalStatus => ~InQueue(queue, j)
    /\ wpc \in {"start", "wait_complete", "snapshot", "complete", "except"} =>
          queue # <<>> /\ Head(queue) = wjob

\* C37 witness: a job was completed and popped, and the job behind it is now
\* running at the head of the deque
C37_Witness ==
    \E j, k \in DOMAIN jobs :
        /\ jobs[j].status = "completed"
        /\ ~InQueue(queue, j)
        /\ jobs[k].status = "running"
        /\ Head(queue) = k

\* C38: a job that is 'completed', 'error' or 'cancelled' keeps its status in
\* every step of enqueue, cancel and the worker, and a cancelled job has no
\* scan_id.
C38_FinalStatusSticks ==
    [][/\ \A j \in DOMAIN jobs :
             jobs[j].status \in FinalStatus =>
                 j \in DOMAIN jobs' /\ jobs'[j].status = jobs[j].status
       /\ \A j \in DOMAIN jobs' :
             jobs'[j].status = "cancelled" => jobs'[j].scan_id = 0]_vars

\* C38 witness: one job was cancelled, and the worker has since run another job
\* to its end and found the deque empty
C38_Witness ==
    /\ JobsWith("cancelled") # {}
    /\ JobsWith("completed") \cup JobsWith("error") # {}
    /\ queue = <<>>
    /\ wpc = "wait"

\* C39: get_runtime is defined in every reachable state: a scanner that is not
\* running has its end_time set, and the snapshot the queue's worker takes of a
\* scan never fails in get_runtime.
C39_RuntimeDefined ==
    /\ \A u \in DOMAIN scans : ~scans[u].running => scans[u].end_time
    /\ wexc # "TypeError"

====
